---- MODULE Spec2Model ----
(***************************************************************************)
(* FragNation registration bot (src/fragnation_bot.py).                    *)
(*                                                                         *)
(* The bot is one asyncio process.  A command handler runs without         *)
(* interruption from one await of the chat platform to the next; the       *)
(* handlers of different commands interleave at those awaits.  load_data   *)
(* and save_data do blocking file I/O under DATA_LOCK and never suspend,   *)
(* so each is atomic, but the lock is released between a handler's load    *)
(* and its save.  Every handler works on the private dict load_data        *)
(* returned and save_data writes that whole dict back.                     *)
(*                                                                         *)
(* Platform calls that lie between two store accesses of a handler read    *)
(* and write no store state; they are taken together as one step.  The     *)
(* bot is a member of one guild that has the payments and registration     *)
(* channels (on_ready creates them), and direct messages, once the first   *)
(* one went through, are delivered.                                        *)
(***************************************************************************)
EXTENDS Integers, Sequences, FiniteSets, TLC

(***************************************************************************)
(* Bounds of the model.                                                    *)
(***************************************************************************)
\* commands issued in a run; slot p holds the handler of the p-th command
MaxCmds == 3

\* the most command handlers started in a run of the dialogue flows alone
MaxSessions == 2

(***************************************************************************)
(* Program constants.                                                      *)
(***************************************************************************)
\* len(team["members"]) >= 5, len(team["members"]) == 5
TeamSize == 5
\* number of entries of questions in handle_solo_registration
NumQuestions == 5

(***************************************************************************)
(* Text.  A str is a sequence of one-character strings, so that strip(),   *)
(* lower() and upper() are computed and not assumed.                       *)
(***************************************************************************)
Uppers == <<"A", "B", "C", "E", "G", "L", "M", "N", "O", "S", "T", "X">>
Lowers == <<"a", "b", "c", "e", "g", "l", "m", "n", "o", "s", "t", "x">>

LowerChar(ch) ==
  IF \E i \in 1..Len(Uppers) : Uppers[i] = ch
  THEN Lowers[CHOOSE i \in 1..Len(Uppers) : Uppers[i] = ch]
  ELSE ch

UpperChar(ch) ==
  IF \E i \in 1..Len(Lowers) : Lowers[i] = ch
  THEN Uppers[CHOOSE i \in 1..Len(Lowers) : Lowers[i] = ch]
  ELSE ch

\* str.lower()
lower(s) == [i \in 1..Len(s) |-> LowerChar(s[i])]

\* str.upper()
upper(s) == [i \in 1..Len(s) |-> UpperChar(s[i])]

RECURSIVE lstrip(_)
lstrip(s) == IF s # <<>> /\ Head(s) = " " THEN lstrip(Tail(s)) ELSE s

RECURSIVE rstrip(_)
rstrip(s) ==
  IF s # <<>> /\ s[Len(s)] = " " THEN rstrip(SubSeq(s, 1, Len(s) - 1)) ELSE s

\* str.strip()
strip(s) == rstrip(lstrip(s))

CANCEL == <<"c", "a", "n", "c", "e", "l">>
SOLO == <<"s", "o", "l", "o">>
TEAM == <<"t", "e", "a", "m">>

\* text.lower() == "cancel", on the stripped reply
IsCancel(text) == lower(text) = CANCEL

\* an optional value: None is <<>>, a present value v is <<v>>
None == <<>>
Some(v) == <<v>>

\* txn_ref or "verified-by-admin"
VERIFIED_BY_ADMIN == <<"v", "b", "a">>
TxnOrDefault(txn_ref) ==
  IF txn_ref = None \/ txn_ref[1] = <<>> THEN VERIFIED_BY_ADMIN ELSE txn_ref[1]

(***************************************************************************)
(* The store document: data.json.                                          *)
(*   solos    : user id -> solo record                                     *)
(*   teams    : team records in insertion order (a dict keeps it, and      *)
(*              verify_cmd and reject_cmd scan the teams in that order)    *)
(*   payments : payment key -> payment record                              *)
(***************************************************************************)
NoCode == <<>>

EmptyData == [solos |-> <<>>, teams |-> <<>>, payments |-> <<>>]

Put(f, k, v) == [x \in (DOMAIN f) \cup {k} |-> IF x = k THEN v ELSE f[x]]

\* f"solo-{uid}", f"team-{code}-created", f"team-{code}-member-{id}"
SoloKey(uid) == <<"solo", NoCode, uid>>
CreatedKey(code) == <<"team_created", code, 0>>
MemberKey(code, uid) == <<"team_member", code, uid>>

\* code in data["teams"]
HasTeam(data, code) == \E i \in 1..Len(data.teams) : data.teams[i].code = code

\* data["teams"][code]
TeamIndex(data, code) == CHOOSE i \in 1..Len(data.teams) : data.teams[i].code = code

TeamOf(data, code) == data.teams[TeamIndex(data, code)]

MemberIds(team) == {team.members[i].discord_id : i \in 1..Len(team.members)}

\* the first entry of team["members"] whose discord_id is uid
MemberIndex(team, uid) ==
  CHOOSE i \in 1..Len(team.members) :
    /\ team.members[i].discord_id = uid
    /\ \A j \in 1..(i - 1) : team.members[j].discord_id # uid

\* the first team, in dict order, that has uid among its members (0: none)
FirstTeamOf(data, uid) ==
  IF \E i \in 1..Len(data.teams) : uid \in MemberIds(data.teams[i])
  THEN CHOOSE i \in 1..Len(data.teams) :
         /\ uid \in MemberIds(data.teams[i])
         /\ \A j \in 1..(i - 1) : uid \notin MemberIds(data.teams[j])
  ELSE 0

(***************************************************************************)
(* handle_solo_registration: what it does to the loaded dict.              *)
(***************************************************************************)
\* the entry with the first two answers under each other's key
SoloEntrySwapped(uid, answers) ==
  [discord_id |-> uid,
   real_name |-> answers[2],
   ign |-> answers[1],
   current_rank |-> answers[3],
   peak_rank |-> answers[4],
   paid |-> FALSE,
   payment_proof |-> answers[5],
   payment_msg |-> 0,
   payment_txn |-> None]

\* data["solos"][str(user.id)] = {...}
SoloEntry(uid, answers) ==
  [discord_id |-> uid,
   real_name |-> answers[1],
   ign |-> answers[2],
   current_rank |-> answers[3],
   peak_rank |-> answers[4],
   paid |-> FALSE,
   payment_proof |-> answers[5],
   payment_msg |-> 0,
   payment_txn |-> None]

SoloStore(data, uid, answers) ==
  [data EXCEPT !.solos = Put(@, uid, SoloEntry(uid, answers))]

\* after post_payment_embed: payment_msg and the payments entry
SoloAttach(data, uid, msg_id) ==
  [data EXCEPT
     !.solos[uid].payment_msg = msg_id,
     !.payments = Put(@, SoloKey(uid),
                      [type |-> "solo", code |-> NoCode, user |-> uid,
                       message_id |-> msg_id, status |-> "pending"])]

(***************************************************************************)
(* handle_team_registration.                                               *)
(***************************************************************************)
\* data["teams"][code] = {...}: the captain is the first member
TeamEntry(code, team_name, uid) ==
  [code |-> code,
   team_name |-> team_name,
   captain_id |-> uid,
   members |-> <<[discord_id |-> uid, ign |-> None, paid |-> FALSE,
                  payment_proof |-> None, payment_msg |-> 0,
                  payment_txn |-> None]>>,
   confirmed |-> FALSE,
   admin_msg |-> 0]

\* assignment to data["teams"][code]: replaces the entry of that code, or
\* appends a new one
TeamStore(data, code, team_name, uid) ==
  IF HasTeam(data, code)
  THEN [data EXCEPT !.teams[TeamIndex(data, code)] = TeamEntry(code, team_name, uid)]
  ELSE [data EXCEPT !.teams = Append(@, TeamEntry(code, team_name, uid))]

\* after post_payment_embed: admin_msg and the team_created payments entry
TeamAttach(data, code, msg_id) ==
  [data EXCEPT
     !.teams[TeamIndex(data, code)].admin_msg = msg_id,
     !.payments = Put(@, CreatedKey(code),
                      [type |-> "team_created", code |-> code, user |-> 0,
                       message_id |-> msg_id, status |-> "awaiting_members"])]

(***************************************************************************)
(* jointeam_cmd.                                                           *)
(***************************************************************************)
\* code.strip().upper()
NormCode(raw) == upper(strip(raw))

\* the checks without the test for a full team
JoinCheckNoLimit(data, code, uid) ==
  IF ~HasTeam(data, code) THEN "invalid_code"
  ELSE IF uid \in MemberIds(TeamOf(data, code)) THEN "already_member"
  ELSE "ok"

\* the checks with a team of 5 let through
JoinCheckOverfull(data, code, uid) ==
  IF ~HasTeam(data, code) THEN "invalid_code"
  ELSE IF uid \in MemberIds(TeamOf(data, code)) THEN "already_member"
  ELSE IF Len(TeamOf(data, code).members) > TeamSize THEN "team_full"
  ELSE "ok"

\* the three checks made before the first question
JoinCheck(data, code, uid) ==
  IF ~HasTeam(data, code) THEN "invalid_code"
  ELSE IF uid \in MemberIds(TeamOf(data, code)) THEN "already_member"
  ELSE IF Len(TeamOf(data, code).members) >= TeamSize THEN "team_full"
  ELSE "ok"

\* team["members"].append(member_entry)
JoinAppend(data, code, uid, ign, payment_proof) ==
  [data EXCEPT
     !.teams[TeamIndex(data, code)].members =
        Append(@, [discord_id |-> uid, ign |-> Some(ign), paid |-> FALSE,
                   payment_proof |-> Some(payment_proof), payment_msg |-> 0,
                   payment_txn |-> None])]

\* on the reloaded dict: the first member entry of uid, when there is one,
\* gets payment_msg and payment_proof; the payments entry is set anyway
JoinAttach(data, code, uid, msg_id, payment_proof) ==
  LET ti == TeamIndex(data, code)
      team == data.teams[ti]
      withMsg ==
        IF uid \in MemberIds(team)
        THEN [data EXCEPT
                !.teams[ti].members[MemberIndex(team, uid)].payment_msg = msg_id,
                !.teams[ti].members[MemberIndex(team, uid)].payment_proof =
                   Some(payment_proof)]
        ELSE data
  IN [withMsg EXCEPT
        !.payments = Put(@, MemberKey(code, uid),
                         [type |-> "team_member", code |-> code, user |-> uid,
                          message_id |-> msg_id, status |-> "pending"])]

(***************************************************************************)
(* verify_cmd and reject_cmd.                                              *)
(***************************************************************************)
\* where the identity is found: solos first, then the teams in dict order
\* and in each the members in list order
Lookup(data, uid) ==
  IF uid \in DOMAIN data.solos THEN [kind |-> "solo", ti |-> 0, key |-> SoloKey(uid)]
  ELSE IF FirstTeamOf(data, uid) # 0
  THEN [kind |-> "team", ti |-> FirstTeamOf(data, uid),
        key |-> MemberKey(data.teams[FirstTeamOf(data, uid)].code, uid)]
  ELSE [kind |-> "none", ti |-> 0, key |-> SoloKey(uid)]

SetStatus(data, key, status) ==
  IF key \in DOMAIN data.payments
  THEN [data EXCEPT !.payments[key].status = status]
  ELSE data

\* the check without the paid flags
TeamCompleteUnpaid(team) ==
  Len(team.members) = TeamSize

\* len(team["members"]) == 5 and all(mbr.get("paid", False) ...)
TeamComplete(team) ==
  /\ Len(team.members) = TeamSize
  /\ \A i \in 1..Len(team.members) : team.members[i].paid

\* team["confirmed"] = True, when the check passes
Confirm(data, ti) ==
  IF TeamComplete(data.teams[ti])
  THEN [data EXCEPT !.teams[ti].confirmed = TRUE]
  ELSE data

\* paid, payment_txn, the payments status and the confirmation
VerifyData(data, uid, txn_ref) ==
  LET at == Lookup(data, uid) IN
  IF at.kind = "solo"
  THEN SetStatus([data EXCEPT !.solos[uid].paid = TRUE,
                              !.solos[uid].payment_txn = Some(TxnOrDefault(txn_ref))],
                 at.key, "verified")
  ELSE IF at.kind = "team"
  THEN LET mi == MemberIndex(data.teams[at.ti], uid) IN
       Confirm(SetStatus([data EXCEPT
                            !.teams[at.ti].members[mi].paid = TRUE,
                            !.teams[at.ti].members[mi].payment_txn =
                               Some(TxnOrDefault(txn_ref))],
                         at.key, "verified"),
               at.ti)
  ELSE data

\* only the payments status changes
RejectData(data, uid) ==
  IF Lookup(data, uid).kind = "none" THEN data
  ELSE SetStatus(data, Lookup(data, uid).key, "rejected")

(***************************************************************************)
(* The payments channel: the embeds in posting order; the message id of    *)
(* an embed is its position.                                               *)
(***************************************************************************)
\* post_payment_embed: msg = await ch.send(embed=embed)
post_payment_embed(channel, key, status) ==
  Append(channel, [key |-> key, status |-> status])

\* edit_payment_embed.  outcome is what the platform answers:
\*   "ok"        msg.edit went through
\*   "gone"      fetch_message raised NotFound or Forbidden: nothing is done
\*   "forbidden" msg.edit raised Forbidden: the embed is sent as a new message
edit_payment_embed(channel, msg_id, status, outcome) ==
  IF msg_id \notin 1..Len(channel) \/ outcome = "gone" THEN channel
  ELSE IF outcome = "ok" THEN [channel EXCEPT ![msg_id].status = status]
  ELSE Append(channel, [key |-> channel[msg_id].key, status |-> status])


(***************************************************************************)
(* State.                                                                  *)
(*   store        the content of data.json                                 *)
(*   procs        the running command handlers, one per slot               *)
(*   payments_ch  the embeds of #payments                                  *)
(*   reg_ch       the messages sent to #registration                       *)
(*   roles        the <<user id, role>> grants made with add_roles         *)
(***************************************************************************)
VARIABLES store, procs, payments_ch, reg_ch, roles

vars == <<store, procs, payments_ch, reg_ch, roles>>

Procs == 1..MaxCmds

ROLE_PARTICIPANT == "Registered Player"
ROLE_CAPTAIN == "Team Captain"

(***************************************************************************)
(* A handler's locals.  pc is the await it is suspended at:                *)
(*   reg_kind, solo_q, team_name, join_ign, join_proof   bot.wait_for      *)
(*   solo_post, team_post, join_post                post_payment_embed     *)
(*   verify_fin, reject_fin           the platform calls before save_data  *)
(*   done                             the handler has returned (result)    *)
(*   idle, over                       not started yet, gone                *)
(* inbox is the message bot.wait_for has just been resolved with.  stale   *)
(* is an auxiliary flag: the store was written by another handler since    *)
(* this one loaded data.                                                   *)
(***************************************************************************)
Idle ==
  [pc |-> "idle", cmd |-> "", user |-> 0, code |-> NoCode, answers |-> <<>>,
   data |-> EmptyData, txn_ref |-> None, inbox |-> None, stale |-> FALSE,
   result |-> ""]

Waiting == {"reg_kind", "solo_q", "team_name", "join_ign", "join_proof"}

\* the pcs at which the handler holds a dict it will save without reloading
HoldsData == {"join_ign", "join_proof", "solo_post", "team_post",
              "verify_fin", "reject_fin"}

Returned(pr, result) ==
  [Idle EXCEPT !.pc = "done", !.cmd = pr.cmd, !.user = pr.user,
               !.code = pr.code, !.result = result]

\* a resolved wait_for is resumed, and a returned handler is gone, before
\* the event loop takes the next event
Busy == \E p \in Procs : procs[p].inbox # None \/ procs[p].pc = "done"

\* slot p takes the next command: the event loop is not in the middle of an
\* event, and the slots are used in order
Free(p) ==
  /\ ~Busy
  /\ procs[p].pc = "idle"
  /\ \A q \in 1..(p - 1) : procs[q].pc # "idle"

\* load_data(): the dict read from the file
load_data == store

\* slot p becomes pr and the others stay; a handler that holds loaded data
\* while another one changes the file is marked stale
Step(p, pr, newStore) ==
  [q \in Procs |->
     IF q = p THEN pr
     ELSE IF newStore # store /\ procs[q].pc \in HoldsData
     THEN [procs[q] EXCEPT !.stale = TRUE]
     ELSE procs[q]]

\* save_data(data) by slot p, which becomes pr
save_data(p, pr, data) ==
  /\ store' = data
  /\ procs' = Step(p, pr, data)

(***************************************************************************)
(* register_cmd.                                                           *)
(***************************************************************************)
\* !register by uid; dm_ok: create_dm and the first dm.send went through
register_cmd(p, uid, dm_ok) ==
  /\ Free(p)
  /\ procs' = [procs EXCEPT ![p] =
                 IF dm_ok
                 THEN [Idle EXCEPT !.pc = "reg_kind", !.cmd = "register", !.user = uid]
                 ELSE Returned([Idle EXCEPT !.cmd = "register", !.user = uid],
                               "dm_failed")]
  /\ UNCHANGED <<store, payments_ch, reg_ch, roles>>

\* a direct message of uid: bot.wait_for is resolved in every handler whose
\* check accepts it (same author, DM channel)
Deliver(uid, text) ==
  [q \in Procs |->
     IF procs[q].pc \in Waiting /\ procs[q].user = uid
     THEN [procs[q] EXCEPT !.inbox = Some(text)]
     ELSE procs[q]]

Reply(uid, text) ==
  /\ ~Busy
  /\ \E q \in Procs : procs[q].pc \in Waiting /\ procs[q].user = uid
  /\ procs' = Deliver(uid, text)
  /\ UNCHANGED <<store, payments_ch, reg_ch, roles>>

\* a timeout that leaves a payments entry of the user behind
TimeoutSaves(p) ==
  /\ ~Busy
  /\ procs[p].pc \in Waiting
  /\ save_data(p, Returned(procs[p], "timeout"),
               [load_data EXCEPT
                  !.payments = Put(@, SoloKey(procs[p].user),
                                   [type |-> "solo", code |-> NoCode,
                                    user |-> procs[p].user, message_id |-> 0,
                                    status |-> "pending"])])
  /\ UNCHANGED <<payments_ch, reg_ch, roles>>

\* asyncio.TimeoutError out of bot.wait_for
Timeout(p) ==
  /\ ~Busy
  /\ procs[p].pc \in Waiting
  /\ procs' = [procs EXCEPT ![p] = Returned(procs[p], "timeout")]
  /\ UNCHANGED <<store, payments_ch, reg_ch, roles>>

\* the handler object is dropped
Return(p) ==
  /\ procs[p].pc = "done"
  /\ procs' = [procs EXCEPT ![p] = [Idle EXCEPT !.pc = "over"]]
  /\ UNCHANGED <<store, payments_ch, reg_ch, roles>>

\* choice = reply.content.strip().lower()
ResumeKind(p) ==
  /\ procs[p].pc = "reg_kind"
  /\ procs[p].inbox # None
  /\ LET choice == lower(strip(procs[p].inbox[1])) IN
     procs' = [procs EXCEPT ![p] =
                 IF choice = SOLO
                 THEN [procs[p] EXCEPT !.pc = "solo_q", !.inbox = None]
                 ELSE IF choice = TEAM
                 THEN [procs[p] EXCEPT !.pc = "team_name", !.inbox = None]
                 ELSE Returned(procs[p], "unrecognized")]
  /\ UNCHANGED <<store, payments_ch, reg_ch, roles>>

(***************************************************************************)
(* handle_solo_registration.                                               *)
(***************************************************************************)
\* one pass of the question loop; after the last answer load_data and the
\* new solos entry, up to the await in post_payment_embed
ResumeSolo(p) ==
  /\ procs[p].pc = "solo_q"
  /\ procs[p].inbox # None
  /\ LET text == strip(procs[p].inbox[1])
         answers == Append(procs[p].answers, text)
     IN procs' = [procs EXCEPT ![p] =
                    IF IsCancel(text) THEN Returned(procs[p], "cancelled")
                    ELSE IF Len(answers) < NumQuestions
                    THEN [procs[p] EXCEPT !.answers = answers, !.inbox = None]
                    ELSE [procs[p] EXCEPT
                            !.pc = "solo_post", !.answers = answers,
                            !.inbox = None, !.stale = FALSE,
                            !.data = SoloStore(load_data, procs[p].user, answers)]]
  /\ UNCHANGED <<store, payments_ch, reg_ch, roles>>

\* the embed is posted; payment_msg, the payments entry, save_data, then
\* the pointer message to #registration
SoloPosted(p) ==
  /\ ~Busy
  /\ procs[p].pc = "solo_post"
  /\ payments_ch' = post_payment_embed(payments_ch, SoloKey(procs[p].user), "pending")
  /\ save_data(p, Returned(procs[p], "completed"),
               SoloAttach(procs[p].data, procs[p].user, Len(payments_ch'))) 
  /\ reg_ch' = Append(reg_ch, <<"solo", NoCode, procs[p].user>>)
  /\ UNCHANGED roles


(***************************************************************************)
(* handle_team_registration.                                               *)
(***************************************************************************)
\* make_join_code(): random.choices draws any code of the pool
make_join_code(pool) == pool

\* the team name arrives; code is what make_join_code and the while loop
\* end with; the team is appended and saved with no await in between
ResumeTeamName(p, pool) ==
  /\ procs[p].pc = "team_name"
  /\ procs[p].inbox # None
  /\ LET team_name == strip(procs[p].inbox[1]) IN
     IF IsCancel(team_name)
     THEN /\ procs' = [procs EXCEPT ![p] = Returned(procs[p], "cancelled")]
          /\ store' = store
     ELSE \E code \in make_join_code(pool) :
            /\ ~HasTeam(load_data, code)
            /\ LET data == TeamStore(load_data, code, team_name, procs[p].user) IN
               save_data(p, [procs[p] EXCEPT
                               !.pc = "team_post", !.code = code, !.inbox = None,
                               !.answers = <<team_name>>, !.stale = FALSE,
                               !.data = data],
                         data)
  /\ UNCHANGED <<payments_ch, reg_ch, roles>>

\* the embed is posted; admin_msg and the payments entry go into the dict
\* loaded before the first save, which is saved again
TeamPosted(p) ==
  /\ ~Busy
  /\ procs[p].pc = "team_post"
  /\ payments_ch' = post_payment_embed(payments_ch, CreatedKey(procs[p].code), "created")
  /\ save_data(p, Returned(procs[p], "completed"),
               TeamAttach(procs[p].data, procs[p].code, Len(payments_ch')))
  /\ UNCHANGED <<reg_ch, roles>>

(***************************************************************************)
(* jointeam_cmd.                                                           *)
(***************************************************************************)
\* the text of the command message
JoinCommand(raw) == <<"!", "j", " ">> \o raw

\* !jointeam raw, sent by uid in a DM.  The message also resolves every
\* wait_for of uid.  load_data and the checks run before the first await.
jointeam_cmd(p, uid, raw) ==
  /\ Free(p)
  /\ LET code == NormCode(raw)
         check == JoinCheck(load_data, code, uid)
         me == [Idle EXCEPT !.cmd = "jointeam", !.user = uid, !.code = code]
     IN procs' = [Deliver(uid, JoinCommand(raw)) EXCEPT ![p] =
                    IF check = "ok"
                    THEN [me EXCEPT !.pc = "join_ign", !.data = load_data]
                    ELSE Returned(me, check)]
  /\ UNCHANGED <<store, payments_ch, reg_ch, roles>>

\* ign = ign_msg.content.strip(); only this reply is compared with cancel
ResumeJoinIgn(p) ==
  /\ procs[p].pc = "join_ign"
  /\ procs[p].inbox # None
  /\ LET ign == strip(procs[p].inbox[1]) IN
     procs' = [procs EXCEPT ![p] =
                 IF IsCancel(ign) THEN Returned(procs[p], "cancelled")
                 ELSE [procs[p] EXCEPT !.pc = "join_proof", !.answers = <<ign>>,
                                       !.inbox = None]]
  /\ UNCHANGED <<store, payments_ch, reg_ch, roles>>

\* payment_proof = pay_msg.content.strip(); the member is appended to the
\* team of the dict loaded by the command, and that dict is saved
ResumeJoinProof(p) ==
  /\ procs[p].pc = "join_proof"
  /\ procs[p].inbox # None
  /\ LET payment_proof == strip(procs[p].inbox[1])
         data == JoinAppend(procs[p].data, procs[p].code, procs[p].user,
                            procs[p].answers[1], payment_proof)
     IN save_data(p, [procs[p] EXCEPT
                        !.pc = "join_post", !.inbox = None, !.stale = FALSE,
                        !.answers = Append(procs[p].answers, payment_proof),
                        !.data = EmptyData],
                  data)
  /\ UNCHANGED <<payments_ch, reg_ch, roles>>

\* the member embed is posted; load_data again; data["teams"][code] raises
\* KeyError when the team is not in the file; else payment_msg, the payments
\* entry, save_data, and the edit of the team embed (outcome: the platform's
\* answer to that edit)
JoinPosted(p, outcome) ==
  /\ ~Busy
  /\ procs[p].pc = "join_post"
  /\ LET posted == post_payment_embed(payments_ch,
                                      MemberKey(procs[p].code, procs[p].user),
                                      "pending")
     IN IF ~HasTeam(load_data, procs[p].code)
        THEN /\ payments_ch' = posted
             /\ procs' = [procs EXCEPT ![p] = Returned(procs[p], "error")]
             /\ store' = store
        ELSE LET data == JoinAttach(load_data, procs[p].code, procs[p].user,
                                    Len(posted), procs[p].answers[2])
             IN /\ payments_ch' =
                     edit_payment_embed(posted, TeamOf(data, procs[p].code).admin_msg,
                                        "created", outcome)
                        /\ save_data(p, Returned(procs[p], "completed"), data)
  /\ UNCHANGED <<reg_ch, roles>>

(***************************************************************************)
(* verify_cmd.                                                             *)
(***************************************************************************)
\* !verify that goes on when the member is not found
verify_cmdUnchecked(p, uid, txn_ref) ==
  /\ Free(p)
  /\ LET me == [Idle EXCEPT !.cmd = "verify", !.user = uid, !.txn_ref = txn_ref] IN
     procs' = [procs EXCEPT ![p] =
                 [me EXCEPT !.pc = "verify_fin",
                            !.data = VerifyData(load_data, uid, txn_ref)]]
  /\ UNCHANGED <<store, payments_ch, reg_ch, roles>>

\* !verify member [txn_ref]: load_data and the changes to the dict, up to
\* the first await (the edit of the embed, or add_roles)
verify_cmd(p, uid, txn_ref) ==
  /\ Free(p)
  /\ LET me == [Idle EXCEPT !.cmd = "verify", !.user = uid, !.txn_ref = txn_ref] IN
     procs' = [procs EXCEPT ![p] =
                 IF Lookup(load_data, uid).kind = "none"
                 THEN Returned(me, "not_found")
                 ELSE [me EXCEPT !.pc = "verify_fin",
                                 !.data = VerifyData(load_data, uid, txn_ref)]]
  /\ UNCHANGED <<store, payments_ch, reg_ch, roles>>

\* the message id of the payments entry of key, 0 when there is none
NoticeOf(data, key) ==
  IF key \in DOMAIN data.payments THEN data.payments[key].message_id ELSE 0

\* whether this verify found its team complete
Confirms(data, uid) ==
  /\ Lookup(data, uid).kind = "team"
  /\ TeamComplete(data.teams[Lookup(data, uid).ti])

\* the embed is edited, the role granted; for a complete team the message
\* to #registration and the captain's role; then save_data(data)
VerifyFinish(p, outcome) ==
  /\ ~Busy
  /\ procs[p].pc = "verify_fin"
  /\ LET data == procs[p].data
         uid == procs[p].user
         at == Lookup(data, uid)
     IN /\ payments_ch' = edit_payment_embed(payments_ch, NoticeOf(data, at.key),
                                             "verified", outcome)
        /\ IF Confirms(data, uid)
           THEN /\ reg_ch' = Append(reg_ch, <<"confirmed", data.teams[at.ti].code, 0>>)
                /\ roles' = roles \cup {<<uid, ROLE_PARTICIPANT>>,
                                        <<data.teams[at.ti].captain_id, ROLE_CAPTAIN>>}
           ELSE /\ reg_ch' = reg_ch
                /\ roles' = roles \cup {<<uid, ROLE_PARTICIPANT>>}
        /\ save_data(p, Returned(procs[p], "verified"), data)

(***************************************************************************)
(* reject_cmd.                                                             *)
(***************************************************************************)
reject_cmd(p, uid) ==
  /\ Free(p)
  /\ LET me == [Idle EXCEPT !.cmd = "reject", !.user = uid] IN
     procs' = [procs EXCEPT ![p] =
                 IF Lookup(load_data, uid).kind = "none"
                 THEN Returned(me, "not_found")
                 ELSE [me EXCEPT !.pc = "reject_fin",
                                 !.data = RejectData(load_data, uid)]]
  /\ UNCHANGED <<store, payments_ch, reg_ch, roles>>

RejectFinish(p, outcome) ==
  /\ ~Busy
  /\ procs[p].pc = "reject_fin"
  /\ LET data == procs[p].data
         at == Lookup(data, procs[p].user)
     IN /\ payments_ch' = edit_payment_embed(payments_ch, NoticeOf(data, at.key),
                                             "rejected", outcome)
        /\ save_data(p, Returned(procs[p], "rejected"), data)
  /\ UNCHANGED <<reg_ch, roles>>

(***************************************************************************)
(* Inputs.                                                                 *)
(***************************************************************************)
Users == {1, 2}

CodePool == {<<"A", "A", "A", "A", "A", "A">>, <<"B", "2", "C", "3", "X", "4">>}

\* what users type: at the kind question solo, team or something else,
\* at the other questions an answer or the cancel keyword
KindTexts == {<<"S", "o", "l", "o">>, <<" ", "t", "e", "a", "m">>}
AnswerTexts == {<<"G", "2", " ">>, <<" ", "C", "a", "n", "c", "e", "l", " ">>}

TextsFor(uid) ==
  AnswerTexts \cup
  (IF \E q \in Procs : procs[q].pc = "reg_kind" /\ procs[q].user = uid
   THEN KindTexts ELSE {})

\* what users type after !jointeam
RawCodes == {<<"a", "a", "a", "a", "a", "a">>, <<"b", "2", "c", "3", "x", "4">>}

TxnRefs == {None, Some(<<"T", "1">>)}

Outcomes == {"ok", "gone", "forbidden"}

Init ==
  /\ store = EmptyData
  /\ procs = [p \in Procs |-> Idle]
  /\ payments_ch = <<>>
  /\ reg_ch = <<>>
  /\ roles = {}

Next ==
  \/ \E p \in Procs, uid \in Users, dm_ok \in BOOLEAN : register_cmd(p, uid, dm_ok)
  \/ \E uid \in Users : \E text \in TextsFor(uid) : Reply(uid, text)
  \/ \E p \in Procs : Timeout(p)
  \/ \E p \in Procs : Return(p)
  \/ \E p \in Procs : ResumeKind(p)
  \/ \E p \in Procs : ResumeSolo(p)
  \/ \E p \in Procs : SoloPosted(p)
  \/ \E p \in Procs : ResumeTeamName(p, CodePool)
  \/ \E p \in Procs : TeamPosted(p)
  \/ \E p \in Procs, uid \in Users, raw \in RawCodes : jointeam_cmd(p, uid, raw)
  \/ \E p \in Procs : ResumeJoinIgn(p)
  \/ \E p \in Procs : ResumeJoinProof(p)
  \/ \E p \in Procs, outcome \in Outcomes : JoinPosted(p, outcome)
  \/ \E p \in Procs, uid \in Users, txn_ref \in TxnRefs : verify_cmd(p, uid, txn_ref)
  \/ \E p \in Procs, outcome \in Outcomes : VerifyFinish(p, outcome)
  \/ \E p \in Procs, uid \in Users : reject_cmd(p, uid)
  \/ \E p \in Procs, outcome \in Outcomes : RejectFinish(p, outcome)

Spec == Init /\ [][Next]_vars


(***************************************************************************)
(* A store left by an earlier run of the bot.  Each command below is one   *)
(* handler run alone from its first to its last line, on the document and  *)
(* the channel the one before it left.                                     *)
(***************************************************************************)
EmptyWorld == [store |-> EmptyData, payments_ch |-> <<>>, roles |-> {}]

\* !register, team, team_name
RanTeam(w, uid, team_name, code) ==
  LET posted == post_payment_embed(w.payments_ch, CreatedKey(code), "created") IN
  [w EXCEPT
     !.store = TeamAttach(TeamStore(w.store, code, team_name, uid), code, Len(posted)),
     !.payments_ch = posted]

\* !jointeam code, ign, payment_proof
RanJoin(w, uid, code, ign, payment_proof) ==
  LET posted == post_payment_embed(w.payments_ch, MemberKey(code, uid), "pending")
      data == JoinAttach(JoinAppend(w.store, code, uid, ign, payment_proof),
                         code, uid, Len(posted), payment_proof)
  IN [w EXCEPT
        !.store = data,
        !.payments_ch = edit_payment_embed(posted, TeamOf(data, code).admin_msg,
                                           "created", "ok")]

\* !verify uid
RanVerify(w, uid) ==
  LET data == VerifyData(w.store, uid, None) IN
  [w EXCEPT
     !.store = data,
     !.payments_ch = edit_payment_embed(w.payments_ch,
                                        NoticeOf(data, Lookup(data, uid).key),
                                        "verified", "ok"),
     !.roles = @ \cup {<<uid, ROLE_PARTICIPANT>>}]

SeedCode == <<"A", "A", "A", "A", "A", "A">>
SeedText == <<"G", "2">>

\* captain 1 and members 2, 3, 4; the payments of 1, 2 and 3 are verified
World4 ==
  RanVerify(RanVerify(RanVerify(
    RanJoin(RanJoin(RanJoin(
      RanTeam(EmptyWorld, 1, SeedText, SeedCode),
      2, SeedCode, SeedText, SeedText),
      3, SeedCode, SeedText, SeedText),
      4, SeedCode, SeedText, SeedText),
    1), 2), 3)

\* member 4 verified and member 5 joined
World5 == RanJoin(RanVerify(World4, 4), 5, SeedCode, SeedText, SeedText)

InitFull ==
  /\ \E w \in {World4, World5} :
       /\ store = w.store
       /\ payments_ch = w.payments_ch
       /\ roles = w.roles
  /\ procs = [p \in Procs |-> Idle]
  /\ reg_ch = <<>>

\* users 5 and 6 want to join; staff look at the payments of 4 and 5; the
\* platform lets every embed be edited
NextFull ==
  \/ \E p \in Procs, uid \in {5, 6} : jointeam_cmd(p, uid, lower(SeedCode))
  \/ \E uid \in {5, 6}, text \in AnswerTexts : Reply(uid, text)
  \/ \E p \in Procs : Timeout(p)
  \/ \E p \in Procs : Return(p)
  \/ \E p \in Procs : ResumeJoinIgn(p)
  \/ \E p \in Procs : ResumeJoinProof(p)
  \/ \E p \in Procs : JoinPosted(p, "ok")
  \/ \E p \in Procs, uid \in {4, 5} : verify_cmd(p, uid, None)
  \/ \E p \in Procs : VerifyFinish(p, "ok")
  \/ \E p \in Procs, uid \in {4, 5} : reject_cmd(p, uid)
  \/ \E p \in Procs : RejectFinish(p, "ok")

SpecFull == InitFull /\ [][NextFull]_vars


(***************************************************************************)
(* The dialogue flows alone: user 2 registers, creates a team and joins    *)
(* the team of captain 1; no staff command runs.                           *)
(***************************************************************************)
Sessions == 1..MaxSessions

\* captain 1 has created the team
World1 == RanTeam(EmptyWorld, 1, SeedText, SeedCode)

InitDialogue ==
  /\ store = World1.store
  /\ payments_ch = World1.payments_ch
  /\ roles = World1.roles
  /\ procs = [p \in Procs |-> Idle]
  /\ reg_ch = <<>>

\* the user never cancels
NextDialogue ==
  \/ \E p \in Sessions : register_cmd(p, 2, TRUE)
  \/ \E text \in TextsFor(2) \ {<<" ", "C", "a", "n", "c", "e", "l", " ">>} :
       Reply(2, text)
  \/ \E p \in Procs : Timeout(p)
  \/ \E p \in Procs : Return(p)
  \/ \E p \in Procs : ResumeKind(p)
  \/ \E p \in Procs : ResumeSolo(p)
  \/ \E p \in Procs : SoloPosted(p)
  \/ \E p \in Procs : ResumeTeamName(p, {<<"B", "2", "C", "3", "X", "4">>})
  \/ \E p \in Procs : TeamPosted(p)
  \/ \E p \in Sessions : jointeam_cmd(p, 2, lower(SeedCode))
  \/ \E p \in Procs : ResumeJoinIgn(p)
  \/ \E p \in Procs : ResumeJoinProof(p)
  \/ \E p \in Procs : JoinPosted(p, "ok")

SpecDialogue == InitDialogue /\ [][NextDialogue]_vars

(***************************************************************************)
(* The solo flow alone.  The user answers the five questions with five     *)
(* different texts: the reply to a session that has k answers is the       *)
(* (k+1)-th text, and with two sessions open either one's next text.       *)
(***************************************************************************)
Script ==
  << <<"N", "a", " ">>, <<" ", "i", "g">>, <<"G", "2">>, <<"I", "1">>,
     <<"t", "x">> >>

ScriptTexts(uid) ==
  {<<"S", "o", "l", "o">> :
     q \in {r \in Procs : procs[r].pc = "reg_kind" /\ procs[r].user = uid}}
  \cup
  {Script[Len(procs[q].answers) + 1] :
     q \in {r \in Procs : procs[r].pc = "solo_q" /\ procs[r].user = uid}}

NextSolo ==
  \/ \E p \in Sessions, dm_ok \in BOOLEAN : register_cmd(p, 2, dm_ok)
  \/ \E text \in ScriptTexts(2) : Reply(2, text)
  \/ \E p \in Procs : Timeout(p)
  \/ \E p \in Procs : Return(p)
  \/ \E p \in Procs : ResumeKind(p)
  \/ \E p \in Procs : ResumeSolo(p)
  \/ \E p \in Procs : SoloPosted(p)

SpecSolo == Init /\ [][NextSolo]_vars


(***************************************************************************)
(* The process dies inside save_data.  open(DATA_FILE, "w") empties the    *)
(* file, json.dump writes the document through the file object piece by    *)
(* piece, and leaving the with block flushes and closes it; what is in the *)
(* file when the process dies is the part of the document written so far.  *)
(***************************************************************************)
\* the document up to its first n top-level sections (solos, teams,
\* payments, in the order json.dump writes them)
Prefix(data, n) ==
  [k \in (IF n = 0 THEN {} ELSE IF n = 1 THEN {"solos"} ELSE {"solos", "teams"})
     |-> data[k]]

\* the join session in slot p has its last reply and is in the save_data
\* of line 407 when the process dies, n sections written; every handler is
\* gone with the process
CrashInSave(p, n) ==
  /\ procs[p].pc = "join_proof"
  /\ procs[p].inbox # None
  /\ store' = Prefix(JoinAppend(procs[p].data, procs[p].code, procs[p].user,
                                procs[p].answers[1], strip(procs[p].inbox[1])),
                     n)
  /\ procs' = [q \in Procs |-> [Idle EXCEPT !.pc = "over"]]
  /\ UNCHANGED <<payments_ch, reg_ch, roles>>

NextCrash ==
  \/ NextFull
  \/ \E p \in Procs, n \in 0..2 : CrashInSave(p, n)

SpecCrash == InitFull /\ [][NextCrash]_vars


(***************************************************************************)
(* The join flow alone: users 5 and 6 join the team of four, one after     *)
(* the other or at the same time, each possibly more than once.            *)
(***************************************************************************)
InitJoin ==
  /\ store = World4.store
  /\ payments_ch = World4.payments_ch
  /\ roles = World4.roles
  /\ procs = [p \in Procs |-> Idle]
  /\ reg_ch = <<>>

NextJoin ==
  \/ \E p \in Sessions, uid \in {5, 6} : jointeam_cmd(p, uid, lower(SeedCode))
  \/ \E uid \in {5, 6}, text \in AnswerTexts : Reply(uid, text)
  \/ \E p \in Procs : Timeout(p)
  \/ \E p \in Procs : Return(p)
  \/ \E p \in Procs : ResumeJoinIgn(p)
  \/ \E p \in Procs : ResumeJoinProof(p)
  \/ \E p \in Procs, outcome \in Outcomes : JoinPosted(p, outcome)

SpecJoin == InitJoin /\ [][NextJoin]_vars


(***************************************************************************)
(* An identity in both collections: member 4 of the team of five, already  *)
(* verified as a member, has also completed a solo registration.  Staff    *)
(* verify and reject 4 and verify member 5.                                *)
(***************************************************************************)
\* !register, solo, and the five answers
RanSolo(w, uid, answers) ==
  LET posted == post_payment_embed(w.payments_ch, SoloKey(uid), "pending") IN
  [w EXCEPT
     !.store = SoloAttach(SoloStore(w.store, uid, answers), uid, Len(posted)),
     !.payments_ch = posted]

WorldBoth ==
  RanSolo(World5, 4, <<SeedText, SeedText, SeedText, SeedText, SeedText>>)

InitBoth ==
  /\ store = WorldBoth.store
  /\ payments_ch = WorldBoth.payments_ch
  /\ roles = WorldBoth.roles
  /\ procs = [p \in Procs |-> Idle]
  /\ reg_ch = <<>>

NextBoth ==
  \/ \E p \in Procs, uid \in {4, 5}, txn_ref \in TxnRefs : verify_cmd(p, uid, txn_ref)
  \/ \E p \in Procs, outcome \in Outcomes : VerifyFinish(p, outcome)
  \/ \E p \in Procs : reject_cmd(p, 4)
  \/ \E p \in Procs, outcome \in Outcomes : RejectFinish(p, outcome)
  \/ \E p \in Procs : Return(p)

SpecBoth == InitBoth /\ [][NextBoth]_vars


(***************************************************************************)
(* Properties.                                                             *)
(***************************************************************************)
Teams(data) == {data.teams[i] : i \in 1..Len(data.teams)}

Members(team) == {team.members[k] : k \in 1..Len(team.members)}

\* the reply is the cancel keyword: 'cancel' after trimming, in any case
IsCancelKeyword(text) == lower(strip(text)) = <<"c", "a", "n", "c", "e", "l">>

\* C1: no lost updates.  A handler whose loaded dict is out of date (another
\* handler has changed the file since the load) does not write the file:
\* every step that such a handler takes leaves the store as it is.
C1_NoLostUpdate ==
  [][\A p \in Procs :
       (procs[p].stale /\ procs'[p].pc # procs[p].pc) => store' = store]_vars

\* C2: in every store state and for every team, confirmed is true if and
\* only if the team has exactly 5 members and every member is paid.
C2_ConfirmedIff ==
  \A team \in Teams(store) :
    team.confirmed <=>
      (Len(team.members) = 5 /\ \A m \in Members(team) : m.paid)

\* a team has been confirmed by a verify of this run
C2_Witness ==
  /\ \E team \in Teams(store) : team.confirmed
  /\ \E p \in Procs : procs[p].cmd = "verify" /\ procs[p].result = "verified"

\* C3: a team that is confirmed in the store is in the store and confirmed
\* after every step.
C3_ConfirmedStays ==
  [][\A team \in Teams(store) :
       team.confirmed =>
         (HasTeam(store', team.code) /\ TeamOf(store', team.code).confirmed)]_vars

\* C4: a handler that is resumed with the cancel keyword returns in that
\* step and the step leaves the store as it is.
C4_CancelAborts ==
  [][\A p \in Procs :
       (/\ procs[p].inbox # None
        /\ procs'[p].inbox = None
        /\ IsCancelKeyword(procs[p].inbox[1]))
       => (procs'[p].pc = "done" /\ store' = store)]_vars

\* C5: a jointeam command with the code of a team in the store goes on to
\* the first question exactly when the team has fewer than 5 members and
\* the user is not one of them; otherwise it returns with the matching
\* error, and in both cases the command leaves the store as it is.  A join
\* whose last question is answered has the user as the last member of the
\* team in the store.
C5_JoinIff ==
  [][\A p \in Procs :
       /\ (procs[p].pc = "idle" /\ procs'[p].cmd = "jointeam"
           /\ HasTeam(store, procs'[p].code))
          => LET team == TeamOf(store, procs'[p].code)
                 member == \E m \in Members(team) : m.discord_id = procs'[p].user
                 full == Len(team.members) >= 5
             IN /\ store' = store
                /\ (procs'[p].pc = "join_ign") <=> (~member /\ ~full)
                /\ (member \/ full) =>
                     /\ procs'[p].pc = "done"
                     /\ procs'[p].result \in {"already_member", "team_full"}
                     /\ procs'[p].result = "already_member" => member
                     /\ procs'[p].result = "team_full" => full
       /\ (procs[p].pc = "join_proof" /\ procs'[p].pc = "join_post")
          => /\ HasTeam(store', procs[p].code)
             /\ LET members == TeamOf(store', procs[p].code).members IN
                members[Len(members)].discord_id = procs[p].user]_vars

\* user 5 has joined in this run (4 is still unpaid) and user 6 is refused
\* because the team is full
C5_Witness ==
  /\ \E p \in Procs : /\ procs[p].cmd = "jointeam" /\ procs[p].user = 6
                      /\ procs[p].result = "team_full"
  /\ \E team \in Teams(store) :
       /\ \E m \in Members(team) : m.discord_id = 5
       /\ \E m \in Members(team) : m.discord_id = 4 /\ ~m.paid

\* C6: in every store state each solo registration, each team and each
\* team member other than the captain has its notice reference.
C6_NoticeRefs ==
  /\ \A uid \in DOMAIN store.solos : store.solos[uid].payment_msg # 0
  /\ \A team \in Teams(store) :
       /\ team.admin_msg # 0
       /\ \A m \in Members(team) :
            m.discord_id # team.captain_id => m.payment_msg # 0

\* C7: the payments channel never holds two notices of the same payment
\* unit.
C7_OneNotice ==
  \A i, j \in 1..Len(payments_ch) :
    i # j => payments_ch[i].key # payments_ch[j].key

\* the unit of uid is paid and its payments entry says verified
IsVerified(data, uid) ==
  LET at == Lookup(data, uid) IN
  /\ at.kind # "none"
  /\ at.key \in DOMAIN data.payments
  /\ data.payments[at.key].status = "verified"
  /\ IF at.kind = "solo" THEN data.solos[uid].paid
     ELSE data.teams[at.ti].members[MemberIndex(data.teams[at.ti], uid)].paid

TxnOf(data, uid) ==
  LET at == Lookup(data, uid) IN
  IF at.kind = "solo" THEN data.solos[uid].payment_txn
  ELSE data.teams[at.ti].members[MemberIndex(data.teams[at.ti], uid)].payment_txn

\* C8: when a verify of an identity that is already verified ends, the
\* unit is paid and verified, the stored txn reference is that of this
\* call, and the payments channel has no new notice.
C8_VerifyTwice ==
  [][\A p \in Procs :
       (/\ procs[p].pc = "verify_fin"
        /\ procs'[p].pc = "done"
        /\ IsVerified(store, procs[p].user))
       => /\ IsVerified(store', procs[p].user)
          /\ TxnOf(store', procs[p].user) =
               Some(IF procs[p].txn_ref = None THEN VERIFIED_BY_ADMIN
                    ELSE procs[p].txn_ref[1])
          /\ Len(payments_ch') = Len(payments_ch)]_vars

\* C9: when a team creation writes its team, first without and then with
\* the notice reference, its join code is not the key of another team in
\* the store: at the first write the code is no key of the store's teams,
\* and at the second write the team under the code is the one this creation
\* wrote.
C9_UniqueCodes ==
  [][\A p \in Procs :
       /\ (procs[p].pc = "team_name" /\ procs'[p].pc = "team_post")
          => ~HasTeam(store, procs'[p].code)
       /\ (procs[p].pc = "team_post" /\ procs'[p].pc = "done"
           /\ HasTeam(store, procs[p].code))
          => TeamOf(store, procs[p].code).captain_id = procs[p].user]_vars

\* C10: the payment index and the records agree.  Every solo registration
\* and every team member has its entry, every solo and team_member entry
\* names a registration or member that is in the store, and the status of
\* an entry is verified exactly when the unit is paid.
C10_IndexAgrees ==
  /\ \A uid \in DOMAIN store.solos :
       /\ SoloKey(uid) \in DOMAIN store.payments
       /\ store.payments[SoloKey(uid)].status = "verified" <=> store.solos[uid].paid
  /\ \A team \in Teams(store) : \A m \in Members(team) :
       /\ MemberKey(team.code, m.discord_id) \in DOMAIN store.payments
       /\ store.payments[MemberKey(team.code, m.discord_id)].status = "verified"
            <=> m.paid
  /\ \A key \in DOMAIN store.payments :
       /\ key[1] = "solo" => key[3] \in DOMAIN store.solos
       /\ key[1] = "team_member" =>
            /\ HasTeam(store, key[2])
            /\ \E m \in Members(TeamOf(store, key[2])) : m.discord_id = key[3]


\* C11: verified is terminal.  A payments entry whose status is verified is
\* in the payments index with status verified after every step.
C11_VerifiedTerminal ==
  [][\A key \in DOMAIN store.payments :
       store.payments[key].status = "verified" =>
         /\ key \in DOMAIN store'.payments
         /\ store'.payments[key].status = "verified"]_vars

\* C12: nothing is deleted.  After every step each solo registration is
\* still a key of solos, each join code is still the code of a team, and
\* each member of a team is still a member of the team with that code.
C12_NothingDeleted ==
  [][/\ DOMAIN store.solos \subseteq DOMAIN store'.solos
     /\ \A team \in Teams(store) :
          /\ HasTeam(store', team.code)
          /\ \A m \in Members(team) :
               \E n \in Members(TeamOf(store', team.code)) :
                 n.discord_id = m.discord_id]_vars

\* the identity has been the target of a verify that reported success: the
\* participant role is granted by exactly those verifies
VerifiedOnce(uid) == <<uid, ROLE_PARTICIPANT>> \in roles'

\* the confirmation of the team of this code is in #registration
Announced(channel, code) ==
  \E i \in 1..Len(channel) : channel[i] = <<"confirmed", code, 0>>

\* C13: after every step, a team of five members is confirmed exactly when
\* each of the five has been verified with success; and the step in which a
\* team becomes confirmed sends the confirmation to #registration and grants
\* the captain role to the captain.
C13_FifthVerifyConfirms ==
  [][/\ \A team \in Teams(store') :
          Len(team.members) = 5 =>
            (team.confirmed <=>
               \A m \in Members(team) : VerifiedOnce(m.discord_id))
     /\ \A team \in Teams(store') :
          (team.confirmed /\ HasTeam(store, team.code)
           /\ ~TeamOf(store, team.code).confirmed)
          => /\ Len(reg_ch') = Len(reg_ch) + 1
             /\ reg_ch'[Len(reg_ch')] = <<"confirmed", team.code, 0>>
             /\ <<team.captain_id, ROLE_CAPTAIN>> \in roles']_vars

\* C14: for each team the confirmation is sent to #registration at most
\* once, and a step in which the team's confirmed flag goes from false to
\* true happens only while no confirmation of the team has been sent.
C14_ConfirmedOnce ==
  [][/\ \A i, j \in 1..Len(reg_ch') :
          (i # j /\ reg_ch'[i][1] = "confirmed") => reg_ch'[i] # reg_ch'[j]
     /\ \A team \in Teams(store') :
          (team.confirmed /\ HasTeam(store, team.code)
           /\ ~TeamOf(store, team.code).confirmed)
          => ~Announced(reg_ch, team.code)]_vars


\* C15: a session whose wait for a reply times out has returned, and the
\* step leaves the store, the payments channel and #registration as they
\* are.
C15_TimeoutNoWrite ==
  [][\A p \in Procs :
       (/\ procs[p].pc \in {"reg_kind", "solo_q", "team_name", "join_ign",
                            "join_proof"}
        /\ procs'[p].result = "timeout")
       => /\ procs'[p].pc = "done"
          /\ store' = store
          /\ payments_ch' = payments_ch
          /\ reg_ch' = reg_ch]_vars

\* a join session has timed out
C15_Witness ==
  \E p \in Procs : procs[p].cmd = "jointeam" /\ procs[p].result = "timeout"

\* uid is a key of solos or a member of a team
Registered(data, uid) ==
  \/ uid \in DOMAIN data.solos
  \/ \E team \in Teams(data) : \E m \in Members(team) : m.discord_id = uid

\* C16: a verify or reject of an identity that is neither a key of solos
\* nor a member of a team returns at once with not found, and neither the
\* command nor its return changes the store, the payments channel,
\* #registration or the roles.
C16_NotFound ==
  [][\A p \in Procs :
       /\ (/\ procs[p].pc = "idle"
           /\ procs'[p].cmd \in {"verify", "reject"}
           /\ ~Registered(store, procs'[p].user))
          => /\ procs'[p].pc = "done"
             /\ procs'[p].result = "not_found"
             /\ UNCHANGED <<store, payments_ch, reg_ch, roles>>
       /\ (procs[p].pc = "done" /\ procs[p].result = "not_found"
           /\ procs'[p] # procs[p])
          => UNCHANGED <<store, payments_ch, reg_ch, roles>>]_vars

\* a verify of user 5, who has not joined, has answered not found
C16_Witness ==
  \E p \in Procs : /\ procs[p].cmd = "verify" /\ procs[p].user = 5
                   /\ procs[p].result = "not_found"

\* C17: the k-th reply to a solo session is the answer to the k-th
\* question; and the step that completes the session leaves solos[A] with
\* paid false and the five answers under real_name, ign, current_rank,
\* peak_rank and payment_proof in that order, one solo payments entry of A
\* with status pending, and one more notice in the payments channel.
C17_SoloCompletion ==
  [][\A p \in Procs :
       /\ (/\ procs[p].pc = "solo_q"
           /\ procs[p].inbox # None
           /\ procs'[p].pc \in {"solo_q", "solo_post"}
           /\ procs'[p].inbox = None)
          => procs'[p].answers = Append(procs[p].answers, strip(procs[p].inbox[1]))
       /\ (procs[p].pc = "solo_post" /\ procs'[p].pc = "done")
          => LET A == procs[p].user
                 replies == procs[p].answers
             IN /\ Len(replies) = 5
                /\ A \in DOMAIN store'.solos
                /\ ~store'.solos[A].paid
                /\ store'.solos[A].real_name = replies[1]
                /\ store'.solos[A].ign = replies[2]
                /\ store'.solos[A].current_rank = replies[3]
                /\ store'.solos[A].peak_rank = replies[4]
                /\ store'.solos[A].payment_proof = replies[5]
                /\ Cardinality({key \in DOMAIN store'.payments :
                                  key[1] = "solo" /\ key[3] = A}) = 1
                /\ store'.payments[<<"solo", <<>>, A>>].status = "pending"
                /\ Len(payments_ch') = Len(payments_ch) + 1]_vars

\* a solo session of user 2 has completed with the five texts of the script
C17_Witness ==
  /\ \E p \in Procs : procs[p].cmd = "register" /\ procs[p].result = "completed"
  /\ 2 \in DOMAIN store.solos
  /\ store.solos[2].real_name = <<"N", "a">>
  /\ store.solos[2].ign = <<"i", "g">>
  /\ store.solos[2].payment_proof = <<"t", "x">>


\* the paid flag of the unit of uid
PaidOf(data, uid) ==
  LET at == Lookup(data, uid) IN
  IF at.kind = "solo" THEN data.solos[uid].paid
  ELSE data.teams[at.ti].members[MemberIndex(data.teams[at.ti], uid)].paid

\* C18: when a verify of a registered identity ends, the unit is paid, its
\* txn reference is the given one or verified-by-admin, the unit has a
\* payments entry with status verified, and the identity has the
\* participant role.
C18_VerifyEffects ==
  [][\A p \in Procs :
       (procs[p].pc = "verify_fin" /\ procs'[p].pc = "done")
       => LET uid == procs[p].user IN
          /\ Registered(store', uid)
          /\ PaidOf(store', uid)
          /\ TxnOf(store', uid) =
               Some(IF procs[p].txn_ref = None THEN <<"v", "b", "a">>
                    ELSE procs[p].txn_ref[1])
          /\ Lookup(store', uid).key \in DOMAIN store'.payments
          /\ store'.payments[Lookup(store', uid).key].status = "verified"
          /\ <<uid, "Registered Player">> \in roles']_vars

\* C19: when a reject of a registered identity ends, the store is the one
\* before the step with the status of the unit's payments entry set to
\* rejected and nothing else changed, and the unit's paid flag is false.
C19_RejectFrame ==
  [][\A p \in Procs :
       (procs[p].pc = "reject_fin" /\ procs'[p].pc = "done")
       => LET uid == procs[p].user
              key == Lookup(store, uid).key
          IN /\ Registered(store, uid)
             /\ key \in DOMAIN store.payments
             /\ store' = [store EXCEPT !.payments[key].status = "rejected"]
             /\ ~PaidOf(store', uid)]_vars


\* C20: the file always holds a complete document, with its three sections
\* solos, teams and payments; and a step in which the process dies leaves
\* the file as it was or with the whole document that was being written.
C20_AtomicWrite ==
  [][/\ DOMAIN store' = {"solos", "teams", "payments"}
     /\ (\A p \in Procs : procs'[p].pc = "over") =>
          \/ store' = store
          \/ \E p \in Procs :
               /\ procs[p].pc = "join_proof"
               /\ HasTeam(store', procs[p].code)
               /\ procs[p].user \in MemberIds(TeamOf(store', procs[p].code))]_vars


\* C21: in every store state every team has between 1 and 5 members, its
\* first member is its captain, and no identity is in its member list
\* twice.
C21_TeamShape ==
  \A team \in Teams(store) :
    /\ Len(team.members) \in 1..5
    /\ team.members[1].discord_id = team.captain_id
    /\ \A i, j \in 1..Len(team.members) :
         i # j => team.members[i].discord_id # team.members[j].discord_id

\* two join sessions that both passed the checks are in progress, one has
\* written its member, and the team has five members
C21_Witness ==
  /\ \E p, q \in Procs :
       /\ p # q
       /\ procs[p].cmd = "jointeam" /\ procs[p].pc = "join_post"
       /\ procs[q].cmd = "jointeam" /\ procs[q].pc \in {"join_proof", "join_post"}
  /\ \E team \in Teams(store) : Len(team.members) = 5


\* C22: no two sessions of the same flow are waiting for the replies of
\* the same identity.
C22_OneSessionPerFlow ==
  \A p, q \in Procs :
    (/\ p # q
     /\ procs[p].pc \in {"reg_kind", "solo_q", "team_name", "join_ign", "join_proof"}
     /\ procs[q].pc \in {"reg_kind", "solo_q", "team_name", "join_ign", "join_proof"}
     /\ procs[p].user = procs[q].user)
    => procs[p].cmd # procs[q].cmd

\* C23: a solo registration that is in the store is there after every
\* step, with the same notice reference and the same answers, with the
\* paid flag still true if it was true, and with a txn reference that only
\* a finishing verify of that identity has changed.
C23_SoloImmutable ==
  [][\A uid \in DOMAIN store.solos :
       /\ uid \in DOMAIN store'.solos
       /\ store'.solos[uid].payment_msg = store.solos[uid].payment_msg
       /\ store'.solos[uid].real_name = store.solos[uid].real_name
       /\ store'.solos[uid].ign = store.solos[uid].ign
       /\ store'.solos[uid].current_rank = store.solos[uid].current_rank
       /\ store'.solos[uid].peak_rank = store.solos[uid].peak_rank
       /\ store'.solos[uid].payment_proof = store.solos[uid].payment_proof
       /\ store.solos[uid].paid => store'.solos[uid].paid
       /\ (\/ store'.solos[uid].paid # store.solos[uid].paid
           \/ store'.solos[uid].payment_txn # store.solos[uid].payment_txn)
          => \E p \in Procs : /\ procs[p].pc = "verify_fin"
                              /\ procs[p].user = uid
                              /\ procs'[p].pc = "done"]_vars

\* C24: in every store state the status of every payments entry is
\* pending, verified or rejected.
C24_StatusSet ==
  \A key \in DOMAIN store.payments :
    store.payments[key].status \in {"pending", "verified", "rejected"}


\* the payments entry of key, or none
EntryOf(data, key) ==
  IF key \in DOMAIN data.payments THEN <<data.payments[key]>> ELSE <<>>

\* C25: when a verify or reject of an identity that is a key of solos and
\* a member of a team ends, each team it is a member of is still in the
\* store with its confirmed flag, the paid flag of that member and the
\* member's payments entry as they were before the step.
C25_SoloFirst ==
  [][\A p \in Procs :
       (/\ procs[p].pc \in {"verify_fin", "reject_fin"}
        /\ procs'[p].pc = "done"
        /\ procs[p].user \in DOMAIN store.solos)
       => \A team \in Teams(store) :
            \A m \in Members(team) :
              m.discord_id = procs[p].user =>
                /\ HasTeam(store', team.code)
                /\ TeamOf(store', team.code).confirmed = team.confirmed
                /\ \E n \in Members(TeamOf(store', team.code)) :
                     n.discord_id = m.discord_id /\ n.paid = m.paid
                /\ EntryOf(store', <<"team_member", team.code, m.discord_id>>)
                     = EntryOf(store, <<"team_member", team.code, m.discord_id>>)]_vars


\* C26: in every store state no identity is a member of more than one
\* team; and a jointeam command of an identity that is a member of a team
\* with another code returns without asking a question.
C26_OneTeam ==
  [][/\ \A s, t \in Teams(store') :
          s.code # t.code =>
            \A m \in Members(s), n \in Members(t) : m.discord_id # n.discord_id
     /\ \A p \in Procs :
          (/\ procs[p].pc = "idle"
           /\ procs'[p].cmd = "jointeam"
           /\ \E t \in Teams(store) :
                /\ t.code # procs'[p].code
                /\ \E m \in Members(t) : m.discord_id = procs'[p].user)
          => procs'[p].pc = "done"]_vars


\* C27: a register session has at most 6 awaited replies (the kind and 5
\* solo answers, or the kind and the team name) and a jointeam session at
\* most 2, and every session that was started and has returned ended
\* completed, cancelled, timed out or with its input rejected.
C27_SessionEnds ==
  \A p \in Procs :
    /\ procs[p].pc = "solo_q" => Len(procs[p].answers) < NumQuestions
    /\ procs[p].pc = "team_name" => procs[p].answers = <<>>
    /\ procs[p].pc = "join_ign" => procs[p].answers = <<>>
    /\ procs[p].pc = "join_proof" => Len(procs[p].answers) = 1
    /\ (/\ procs[p].pc = "done"
        /\ procs[p].cmd \in {"register", "jointeam"}
        /\ procs[p].result # "dm_failed")
       => procs[p].result \in {"completed", "cancelled", "timeout",
                               "unrecognized", "invalid_code",
                               "already_member", "team_full"}


====
